---------------------------- MODULE Spec2Model ----------------------------
(***************************************************************************)
(* Model of the ordered-list auto-continuation plugin (src/line.ts).       *)
(*                                                                         *)
(* Text is a sequence of characters.  An ASCII character is the string of  *)
(* that character; a non-ASCII character is a token:                       *)
(*   "dun"          U+3001 ideographic comma (the full-width separator)    *)
(*   "fw(" "fw)"    U+FF08 / U+FF09 full-width parentheses                 *)
(*   "lb[" "lb]"    U+3010 / U+3011 lenticular brackets                    *)
(*   "zh1".."zh10"  U+4E00 ... the Chinese numerals one to ten             *)
(*   "zh0"          U+96F6 the Chinese numeral zero                        *)
(*   "zhJia"        U+7532, a CJK character that is no numeral             *)
(* Offsets are 0-based as in the editor: the character at offset i of a    *)
(* document doc is doc[i + 1].                                             *)
(***************************************************************************)
EXTENDS Integers, Sequences, FiniteSets, TLC

(***************************************************************************)
(* Characters and JavaScript string primitives                             *)
(***************************************************************************)
DigitChars == <<"0", "1", "2", "3", "4", "5", "6", "7", "8", "9">>

UpperChars ==
    <<"A", "B", "C", "D", "E", "F", "G", "H", "I", "J", "K", "L", "M",
      "N", "O", "P", "Q", "R", "S", "T", "U", "V", "W", "X", "Y", "Z">>

LowerChars ==
    <<"a", "b", "c", "d", "e", "f", "g", "h", "i", "j", "k", "l", "m",
      "n", "o", "p", "q", "r", "s", "t", "u", "v", "w", "x", "y", "z">>

\* The printable ASCII characters in code order; AsciiTable[i] has char code 31 + i
\* ("dquote", "bslash" and "btick" stand for the double quote, the backslash and
\* the backtick).
AsciiTable ==
    <<" ", "!", "dquote", "#", "$", "%", "&", "'", "(", ")", "*", "+", ",", "-", ".", "/">>
    \o DigitChars \o <<":", ";", "<", "=", ">", "?", "@">>
    \o UpperChars \o <<"[", "bslash", "]", "^", "_", "btick">>
    \o LowerChars \o <<"{", "|", "}", "~">>

Range(s) == {s[i] : i \in 1..Len(s)}

\* \d, [A-Z], [a-z]
DigitSet == Range(DigitChars)
UpperSet == Range(UpperChars)
LowerSet == Range(LowerChars)

\* [U+4E00-U+9FA5]
CJKChars ==
    {"zh0", "zh1", "zh2", "zh3", "zh4", "zh5", "zh6", "zh7", "zh8", "zh9", "zh10", "zhJia"}

\* [\w U+4E00-U+9FA5]
WordOrCJKSet == DigitSet \cup UpperSet \cup LowerSet \cup {"_"} \cup CJKChars

\* The value JavaScript arithmetic gives for a failed conversion.
NaN == -1

IndexOf(seq, c) == CHOOSE i \in 1..Len(seq) : seq[i] = c

\* String.prototype.charCodeAt(0) of a string that starts with an ASCII character.
charCodeAt0(s) == 31 + IndexOf(AsciiTable, s[1])

\* String.fromCharCode for a printable ASCII code.
fromCharCode(code) == <<AsciiTable[code - 31]>>

Drop(s, n) == SubSeq(s, n + 1, Len(s))
Take(s, n) == SubSeq(s, 1, n)

RECURSIVE LeadingRun(_, _, _)
\* The number of consecutive characters of s, from index i on, that are in the set S.
LeadingRun(s, i, S) ==
    IF i <= Len(s) /\ s[i] \in S THEN 1 + LeadingRun(s, i + 1, S) ELSE 0

RECURSIVE RunOutside(_, _, _)
\* The number of consecutive characters of s, from index i on, that are not in S.
RunOutside(s, i, S) ==
    IF i <= Len(s) /\ s[i] \notin S THEN 1 + RunOutside(s, i + 1, S) ELSE 0

IsSpace(c) == c \in {" ", "\n", "\t"}

\* String.prototype.trim() === ''
IsBlank(s) == \A i \in 1..Len(s) : IsSpace(s[i])

RECURSIVE DigitsValue(_, _, _)
DigitsValue(s, n, acc) ==
    IF n = 0 THEN acc
    ELSE DigitsValue(Drop(s, 1), n - 1, 10 * acc + (IndexOf(DigitChars, s[1]) - 1))

\* parseInt(s): the value of the leading run of decimal digits, or NaN.
parseInt(s) ==
    LET n == LeadingRun(s, 1, DigitSet)
    IN  IF n = 0 THEN NaN ELSE DigitsValue(s, n, 0)

RECURSIVE DecimalString(_)
DecimalString(n) ==
    IF n < 10 THEN <<DigitChars[n + 1]>>
    ELSE DecimalString(n \div 10) \o <<DigitChars[(n % 10) + 1]>>

\* Number.prototype.toString() and the string a number concatenates as.
numberToString(n) == IF n = NaN THEN <<"N", "a", "N">> ELSE DecimalString(n)

\* JavaScript's n + 1 on a number that may be NaN.
PlusOne(n) == IF n = NaN THEN NaN ELSE n + 1

(***************************************************************************)
(* Numeral codec                                                           *)
(***************************************************************************)
romanKeys ==
    << <<"M">>, <<"C", "M">>, <<"D">>, <<"C", "D">>, <<"C">>, <<"X", "C">>, <<"L">>,
       <<"X", "L">>, <<"X">>, <<"I", "X">>, <<"V">>, <<"I", "V">>, <<"I">> >>

romanValues == <<1000, 900, 500, 400, 100, 90, 50, 40, 10, 9, 5, 4, 1>>

\* romanNumerals[c] for a one-character key c; Undefined when the table has no such key.
Undefined == -2

romanNumeralOf(c) ==
    IF \E k \in 1..Len(romanKeys) : romanKeys[k] = <<c>>
    THEN romanValues[CHOOSE k \in 1..Len(romanKeys) : romanKeys[k] = <<c>>]
    ELSE Undefined

RECURSIVE romanScan(_, _, _)
\* The loop `while (i--)` of romanToArabic; i is the 1-based index of roman[i].
romanScan(roman, i, arabic) ==
    IF i = 0 THEN arabic
    ELSE LET cur == romanNumeralOf(roman[i])
             nxt == IF i + 1 <= Len(roman) THEN romanNumeralOf(roman[i + 1]) ELSE Undefined
             less == cur # Undefined /\ nxt # Undefined /\ cur < nxt
             acc == IF cur = Undefined \/ arabic = NaN THEN NaN
                    ELSE IF less THEN arabic - cur ELSE arabic + cur
         IN  romanScan(roman, i - 1, acc)

RECURSIVE romanSum(_, _)
romanSum(roman, i) ==
    IF i = 0 THEN 0 ELSE romanNumeralOf(roman[i]) + romanSum(roman, i - 1)

\* A romanToArabic that only adds: it reads IV as 6.
romanToArabicAdditive(roman) == romanSum(roman, Len(roman))

romanToArabic(roman) == romanScan(roman, Len(roman), 0)

RECURSIVE arabicToRomanLoop(_, _, _)
arabicToRomanLoop(number, k, roman) ==
    IF k > Len(romanKeys) THEN roman
    ELSE IF number >= romanValues[k]
         THEN arabicToRomanLoop(number - romanValues[k], k, roman \o romanKeys[k])
         ELSE arabicToRomanLoop(number, k + 1, roman)

\* NaN >= v is false for every v: the result is the empty string.
arabicToRoman(number) == IF number = NaN THEN <<>> ELSE arabicToRomanLoop(number, 1, <<>>)

chineseDigits ==
    <<"zh0", "zh1", "zh2", "zh3", "zh4", "zh5", "zh6", "zh7", "zh8", "zh9", "zh10">>

\* chineseNumerals[chinese] || 0: the table holds the one-character keys one..ten.
chineseToArabic(chinese) ==
    IF Len(chinese) = 1 /\ \E n \in 1..10 : chineseDigits[n + 1] = chinese[1]
    THEN CHOOSE n \in 1..10 : chineseDigits[n + 1] = chinese[1]
    ELSE 0

\* chineseNumerals[number] || ''
arabicToChinese(number) ==
    IF number # NaN /\ number >= 0 /\ number <= 10 THEN <<chineseDigits[number + 1]>> ELSE <<>>

(***************************************************************************)
(* Pattern recognizer                                                      *)
(***************************************************************************)
\* [\.|、] of identifyPattern: the bar is a member of the class.
IdentifySeparators == {".", "|", "dun"}

\* [\.、] of the bracket pattern and of the punctuation match.
Separators == {".", "dun"}

\* [\(\[\【\（] and [\）\]\】\)]
OpeningBrackets == {"(", "[", "lb[", "fw("}
ClosingBrackets == {"fw)", "]", "lb]", ")"}

FollowedBySeparator(text, n) == n + 1 <= Len(text) /\ text[n + 1] \in IdentifySeparators

\* text after the greedy match of c{0,max}.
StripUpTo(text, c, max) ==
    LET n == LeadingRun(text, 1, {c}) IN Drop(text, IF n > max THEN max ELSE n)

StartsWith(text, prefix) ==
    Len(text) >= Len(prefix) /\ Take(text, Len(prefix)) = prefix

\* The rest of text after (nine|four|five?one{0,3}), e.g. (CM|CD|D?C{0,3}).
StripRomanGroup(text, nine, four, five, one) ==
    IF StartsWith(text, nine) THEN Drop(text, 2)
    ELSE IF StartsWith(text, four) THEN Drop(text, 2)
    ELSE StripUpTo(StripUpTo(text, five, 1), one, 3)

\* Whether marker is matched in full by M{0,4}(CM|CD|D?C{0,3})(XC|XL|L?X{0,3})(IX|IV|V?I{0,3}).
MatchesRomanGrammar(marker) ==
    LET afterM == StripUpTo(marker, "M", 4)
        afterC == StripRomanGroup(afterM, <<"C", "M">>, <<"C", "D">>, "D", "C")
        afterX == StripRomanGroup(afterC, <<"X", "C">>, <<"X", "L">>, "L", "X")
        afterI == StripRomanGroup(afterX, <<"I", "X">>, <<"I", "V">>, "V", "I")
    IN  afterI = <<>>

RomanLetters == {"M", "D", "C", "L", "X", "V", "I"}

PatternOrder == <<"arabic", "uppercaseLetter", "lowercaseLetter", "romanNumeral", "chineseNumeral">>

\* patterns[type].test(lineText)
PatternTest(type, lineText) ==
    CASE type = "arabic" ->
            LET n == LeadingRun(lineText, 1, DigitSet)
            IN  n >= 1 /\ FollowedBySeparator(lineText, n)
      [] type = "uppercaseLetter" ->
            Len(lineText) >= 1 /\ lineText[1] \in UpperSet /\ FollowedBySeparator(lineText, 1)
      [] type = "lowercaseLetter" ->
            Len(lineText) >= 1 /\ lineText[1] \in LowerSet /\ FollowedBySeparator(lineText, 1)
      [] type = "romanNumeral" ->
            LET n == LeadingRun(lineText, 1, RomanLetters)
            IN  MatchesRomanGrammar(Take(lineText, n)) /\ FollowedBySeparator(lineText, n)
      [] type = "chineseNumeral" ->
            LET n == LeadingRun(lineText, 1, CJKChars)
            IN  n >= 1 /\ FollowedBySeparator(lineText, n)

\* The first of the pattern types numbered in hits, in declaration order; "null" if none.
FirstPattern(hits) ==
    IF hits = {} THEN "null"
    ELSE PatternOrder[CHOOSE k \in hits : \A j \in hits : k <= j]

\* The first pattern type, in declaration order, whose expression matches; "null" if none.
identifyPattern(lineText) ==
    FirstPattern({k \in 1..Len(PatternOrder) : PatternTest(PatternOrder[k], lineText)})

NoMatch == [matched |-> FALSE, g1 |-> <<>>, g2 |-> <<>>, g3 |-> <<>>, g4 |-> <<>>, g5 |-> <<>>]

\* The match of ([^...]*)([...])?([\.、](.*)) from index start + 1 on, where g1 is the
\* opening bracket already consumed.  Backtracking order: the longest run of
\* non-closing characters first, with the closing bracket before without it.
BracketMatchFrom(lineText, start, g1) ==
    LET run == RunOutside(lineText, start + 1, ClosingBrackets)
        p == start + run
        withCloser == /\ p + 2 <= Len(lineText)
                      /\ lineText[p + 1] \in ClosingBrackets
                      /\ lineText[p + 2] \in Separators
        cuts == {k \in 0..(run - 1) : lineText[start + k + 1] \in Separators}
        k == CHOOSE c \in cuts : \A d \in cuts : d <= c
    IN  IF withCloser
        THEN [matched |-> TRUE, g1 |-> g1,
              g2 |-> SubSeq(lineText, start + 1, p),
              g3 |-> <<lineText[p + 1]>>,
              g4 |-> Drop(lineText, p + 1),
              g5 |-> Drop(lineText, p + 2)]
        ELSE IF cuts # {}
        THEN [matched |-> TRUE, g1 |-> g1,
              g2 |-> SubSeq(lineText, start + 1, start + k),
              g3 |-> <<>>,
              g4 |-> Drop(lineText, start + k),
              g5 |-> Drop(lineText, start + k + 1)]
        ELSE NoMatch

\* new RegExp(reg, 'gm').exec(lineText) on a text without line breaks.  An absent
\* group (undefined) is the empty sequence: g1 and g3 hold one character when present.
BracketMatchOrElse(withOpener, lineText) ==
    IF withOpener.matched THEN withOpener ELSE BracketMatchFrom(lineText, 0, <<>>)

BracketPatternExec(lineText) ==
    IF Len(lineText) >= 1 /\ lineText[1] \in OpeningBrackets
    THEN BracketMatchOrElse(BracketMatchFrom(lineText, 1, <<lineText[1]>>), lineText)
    ELSE BracketMatchFrom(lineText, 0, <<>>)

\* [bracketLeft, textWithoutBrackets, bracketRight]
BracketsAndTextOf(match, lineText) ==
    IF match.matched THEN <<match.g1, match.g2 \o match.g4, match.g3>>
    ELSE <<<<>>, lineText, <<>>>>

extractBracketsAndText(lineText) == BracketsAndTextOf(BracketPatternExec(lineText), lineText)

\* lineText.match(/^[\w...]+/)?.[0]; the empty sequence when there is no match.
LeadingToken(lineText) == Take(lineText, LeadingRun(lineText, 1, WordOrCJKSet))

\* The switch of extractNumber on match[0].
NumberOfToken(match, patternType) ==
    IF match = <<>> THEN 1
    ELSE CASE patternType = "arabic" -> parseInt(match)
           [] patternType \in {"uppercaseLetter", "lowercaseLetter"} -> charCodeAt0(match)
           [] patternType = "romanNumeral" -> romanToArabic(match)
           [] patternType = "chineseNumeral" -> chineseToArabic(match)
           [] OTHER -> 1

extractNumber(lineText, patternType) == NumberOfToken(LeadingToken(lineText), patternType)

\* The number each case of getNextNumber reads from currentNumber.
currentOrdinal(currentNumber, patternType) ==
    CASE patternType = "arabic" -> parseInt(currentNumber)
      [] patternType \in {"uppercaseLetter", "lowercaseLetter"} -> charCodeAt0(currentNumber)
      [] patternType = "romanNumeral" -> romanToArabic(currentNumber)
      [] patternType = "chineseNumeral" -> chineseToArabic(currentNumber)

\* The text each case of getNextNumber makes of the number it has incremented.
encodeNumber(number, patternType) ==
    CASE patternType = "arabic" -> numberToString(number)
      [] patternType \in {"uppercaseLetter", "lowercaseLetter"} -> fromCharCode(number)
      [] patternType = "romanNumeral" -> arabicToRoman(number)
      [] patternType = "chineseNumeral" -> arabicToChinese(number)

getNextNumber(currentNumber, punctuation, patternType) ==
    encodeNumber(PlusOne(currentOrdinal(currentNumber, patternType)), patternType)
    \o punctuation

(***************************************************************************)
(* The editor's document (Text) and change sets, as the plugin uses them   *)
(***************************************************************************)
Includes(text, c) == \E i \in 1..Len(text) : text[i] = c

\* The line of doc from offset `from` on, of len characters.
LineRecord(doc, from, len, number) ==
    [ok |-> TRUE, from |-> from, to |-> from + len, number |-> number,
     text |-> SubSeq(doc, from + 1, from + len)]

RECURSIVE LinesFrom(_, _, _)
LinesAfter(doc, from, number, len) ==
    IF from + len >= Len(doc) THEN <<LineRecord(doc, from, len, number)>>
    ELSE <<LineRecord(doc, from, len, number)>> \o LinesFrom(doc, from + len + 1, number + 1)

\* The lines of doc from offset `from` on, the first of them numbered `number`.
LinesFrom(doc, from, number) ==
    LinesAfter(doc, from, number, RunOutside(doc, from + 1, {"\n"}))

\* state.doc.line(n) is DocLines(doc)[n]; state.doc.lines is their number.
DocLines(doc) == LinesFrom(doc, 0, 1)

\* What a lookup outside the document gives: the call throws a RangeError.
RangeError == [ok |-> FALSE, from |-> 0, to |-> 0, number |-> 0, text |-> <<>>]

LineHolding(lines, pos) ==
    lines[CHOOSE n \in 1..Len(lines) : lines[n].from <= pos /\ pos <= lines[n].to]

\* state.doc.lineAt(pos)
lineAt(doc, pos) ==
    IF pos < 0 \/ pos > Len(doc) THEN RangeError ELSE LineHolding(DocLines(doc), pos)

\* state.doc.sliceString(from, to)
sliceString(doc, from, to) == SubSeq(doc, from + 1, to)

RECURSIVE ApplyChanges(_, _, _)
\* doc with changes[1..n] applied; the changes are in the coordinates of doc, ascending
\* and disjoint, so the last is applied first.
ApplyChanges(doc, changes, n) ==
    IF n = 0 THEN doc
    ELSE ApplyChanges(Take(doc, changes[n].from) \o changes[n].insert \o Drop(doc, changes[n].to),
                      changes, n - 1)

\* ChangeSet.of(changes, length) throws a RangeError for a range outside 0..length.
ValidChanges(changes, length) ==
    \A n \in 1..Len(changes) :
        /\ 0 <= changes[n].from
        /\ changes[n].from <= changes[n].to
        /\ changes[n].to <= length

RECURSIVE IterChanges(_, _, _)
\* What iterChanges reports for changes[n..]: fromA/toA in the old document, fromB/toB
\* in the new one.
IterChanges(changes, n, shift) ==
    IF n > Len(changes) THEN <<>>
    ELSE <<[fromA |-> changes[n].from, toA |-> changes[n].to,
            fromB |-> changes[n].from + shift,
            toB |-> changes[n].from + shift + Len(changes[n].insert),
            inserted |-> changes[n].insert]>>
         \o IterChanges(changes, n + 1,
                        shift + Len(changes[n].insert) - (changes[n].to - changes[n].from))

\* A transaction: the document it started from, its changes and its userEvent
\* annotation ("none" when the transaction carries no annotation).
Transaction(startDoc, changes, userEvent) ==
    [startDoc |-> startDoc, changes |-> IterChanges(changes, 1, 0), userEvent |-> userEvent]

(***************************************************************************)
(* Edit synthesizer: the Enter path.  checkForEnter's callback is split    *)
(* into its steps, each taking what the steps before it computed.          *)
(***************************************************************************)
PunctuationAfter(textWithoutBrackets, n) ==
    IF n >= 1 /\ n + 1 <= Len(textWithoutBrackets) /\ textWithoutBrackets[n + 1] \in Separators
    THEN <<textWithoutBrackets[n + 1]>>
    ELSE <<".">>

\* textWithoutBrackets.match(/^[\w...]+[\.\、]/)?.[0].slice(-1) || '.'
punctuationOf(textWithoutBrackets) ==
    PunctuationAfter(textWithoutBrackets, LeadingRun(textWithoutBrackets, 1, WordOrCJKSet))

\* A test that takes every inserted text for an Enter.
EveryInsertIsEnter(inserted) == TRUE

\* text.includes('\n'): the inserted text holds a line break.
IsEnter(inserted) == Includes(inserted, "\n")

\* The test for the second Enter on a line that holds only its marker:
\* exec(currentLineText)?.[5]?.trim() === '' && behindLineText.trim() === ''
IsSecondEnter(bracketMatch, behindLineText) ==
    bracketMatch.matched /\ IsBlank(bracketMatch.g5) /\ IsBlank(behindLineText)

\* A re-wrap that forgets the brackets.
NoRewrap(bracketMatch, nextNumber) == nextNumber

\* hasBrackets && bracketMatch[1] !== undefined ? re-wrapped : nextNumber
RewrapBrackets(bracketMatch, nextNumber) ==
    IF bracketMatch.matched /\ bracketMatch.g3 # <<>> /\ bracketMatch.g1 # <<>>
    THEN bracketMatch.g1 \o Take(nextNumber, Len(nextNumber) - 1)
         \o bracketMatch.g3 \o Drop(nextNumber, Len(nextNumber) - 1)
    ELSE nextNumber

\* The insertion at the start of the new line.
enterInsert(insertPosition, punctuation, nextNumber) ==
    <<[from |-> insertPosition, to |-> insertPosition,
       insert |-> nextNumber \o (IF punctuation = <<"dun">> THEN <<>> ELSE <<" ">>)]>>

enterWithNumber(behindLine, bracketMatch, pattern, currentNumber, punctuation) ==
    IF currentNumber = <<>> THEN <<>>
    ELSE enterInsert(behindLine.from, punctuation,
                     RewrapBrackets(bracketMatch,
                                    getNextNumber(currentNumber, punctuation, pattern)))

enterWithPattern(behindLine, bracketMatch, hasBrackets, textWithoutBrackets, pattern) ==
    IF pattern = "arabic" /\ ~hasBrackets THEN <<>>
    ELSE IF pattern = "null" THEN <<>>
    ELSE enterWithNumber(behindLine, bracketMatch, pattern,
                         LeadingToken(textWithoutBrackets), punctuationOf(textWithoutBrackets))

enterWithText(behindLine, bracketMatch, hasBrackets, textWithoutBrackets) ==
    enterWithPattern(behindLine, bracketMatch, hasBrackets, textWithoutBrackets,
                     identifyPattern(textWithoutBrackets))

enterWithMatch(currentLine, behindLine, bracketMatch) ==
    IF IsSecondEnter(bracketMatch, behindLine.text)
    THEN <<[from |-> currentLine.from, to |-> currentLine.to + 1, insert |-> <<>>]>>
    ELSE enterWithText(behindLine, bracketMatch,
                       bracketMatch.matched /\ bracketMatch.g3 # <<>>,
                       IF bracketMatch.matched /\ bracketMatch.g3 # <<>>
                       THEN bracketMatch.g2 \o bracketMatch.g4
                       ELSE currentLine.text)

enterOnLines(currentLine, behindLine) ==
    IF IsBlank(currentLine.text) THEN <<>>
    ELSE enterWithMatch(currentLine, behindLine, BracketPatternExec(currentLine.text))

\* The edits checkForEnter's callback pushes for one change (none, or one).
enterChange(change, doc) ==
    IF ~IsEnter(change.inserted) THEN <<>>
    ELSE enterOnLines(lineAt(doc, change.fromA), lineAt(doc, change.toB))

RECURSIVE enterChanges(_, _, _)
enterChanges(changes, n, doc) ==
    IF n > Len(changes) THEN <<>>
    ELSE enterChange(changes[n], doc) \o enterChanges(changes, n + 1, doc)

\* checkForEnter(transaction, state): the batch of edits; it never throws.
checkForEnter(transaction, doc) ==
    [threw |-> FALSE, changes |-> enterChanges(transaction.changes, 1, doc)]

(***************************************************************************)
(* Edit synthesizer: the delete/merge path, split into steps likewise      *)
(***************************************************************************)
Thrown == [threw |-> TRUE, changes |-> <<>>]
NoEdits == [threw |-> FALSE, changes |-> <<>>]

\* The edit the loop body pushes for one line: the line with its number replaced.
renumberPush(line, parts, currentNumberText, newNumberText) ==
    IF newNumberText # <<>>
    THEN <<[from |-> line.from, to |-> line.to,
            insert |-> parts[1] \o newNumberText \o parts[3]
                       \o Drop(parts[2], Len(currentNumberText))]>>
    ELSE <<>>

renumberTyped(line, parts, linePatternType, currentNumber) ==
    IF linePatternType = "null" THEN [stop |-> TRUE, edits |-> <<>>]
    ELSE [stop |-> FALSE,
          edits |-> renumberPush(line, parts,
                                 numberToString(extractNumber(parts[2], linePatternType)),
                                 getNextNumber(numberToString(currentNumber), <<>>,
                                               linePatternType))]

renumberParts(line, parts, currentNumber) ==
    renumberTyped(line, parts, identifyPattern(parts[2]), currentNumber)

\* The body of the while loop of handleDelete for one line.
renumberLine(line, currentNumber) ==
    renumberParts(line, extractBracketsAndText(line.text), currentNumber)

RECURSIVE renumberFrom(_, _, _)
renumberNext(lines, lineNumber, currentNumber, step) ==
    IF step.stop THEN <<>>
    ELSE step.edits \o renumberFrom(lines, lineNumber + 1, PlusOne(currentNumber))

\* The while loop of handleDelete from line lineNumber on, with the running number.
renumberFrom(lines, lineNumber, currentNumber) ==
    IF lineNumber > Len(lines) THEN <<>>
    ELSE renumberNext(lines, lineNumber, currentNumber,
                      renumberLine(lines[lineNumber], currentNumber))

deleteFromPrev(doc, hasBreak, nextLine, textWithoutBracketsPrev, patternTypePrevLine) ==
    [threw |-> FALSE,
     changes |-> renumberFrom(DocLines(doc), nextLine.number,
                              IF patternTypePrevLine # "null" /\ hasBreak
                              THEN extractNumber(textWithoutBracketsPrev, patternTypePrevLine)
                              ELSE 0)]

deleteWithPrevText(doc, hasBreak, nextLine, textWithoutBracketsPrev) ==
    deleteFromPrev(doc, hasBreak, nextLine, textWithoutBracketsPrev,
                   identifyPattern(textWithoutBracketsPrev))

deleteWithPrev(doc, hasBreak, nextLine, prevLine) ==
    IF ~prevLine.ok THEN Thrown
    ELSE deleteWithPrevText(doc, hasBreak, nextLine, extractBracketsAndText(prevLine.text)[2])

deleteWithNext(change, doc, hasBreak, nextLine, patternTypeNextLine) ==
    IF patternTypeNextLine = "null" THEN NoEdits
    ELSE deleteWithPrev(doc, hasBreak, nextLine, lineAt(doc, change.fromA - 1))

deleteOnLines(change, doc, hasBreak, currentLine, nextLine) ==
    IF ~currentLine.ok \/ ~nextLine.ok THEN Thrown
    ELSE IF ~(hasBreak \/ IsBlank(currentLine.text)) THEN NoEdits
    ELSE deleteWithNext(change, doc, hasBreak, nextLine,
                        identifyPattern(extractBracketsAndText(nextLine.text)[2]))

\* The callback of handleDelete for one change: the edits it pushes, or thrown when one
\* of its line lookups is outside the document.  hasBreak is deletedText.includes('\n').
deleteChange(change, startDoc, doc) ==
    deleteOnLines(change, doc,
                  Includes(sliceString(startDoc, change.fromA, change.toA), "\n"),
                  lineAt(doc, change.fromA), lineAt(doc, change.toB + 1))

DeleteResults(one, rest) ==
    IF one.threw \/ rest.threw THEN Thrown
    ELSE [threw |-> FALSE, changes |-> one.changes \o rest.changes]

RECURSIVE deleteChanges(_, _, _, _)
deleteChanges(changes, n, startDoc, doc) ==
    IF n > Len(changes) THEN NoEdits
    ELSE DeleteResults(deleteChange(changes[n], startDoc, doc),
                       deleteChanges(changes, n + 1, startDoc, doc))

\* handleDelete(transaction, state)
handleDelete(transaction, doc) ==
    deleteChanges(transaction.changes, 1, transaction.startDoc, doc)

(***************************************************************************)
(* Change adapter: the view plugin's update() and the deferred dispatch    *)
(***************************************************************************)
IgnoredUserEvents == {"undo", "redo", "plugin-update", "set"}

\* tr.annotation(Transaction.userEvent)?.contains("delete")
ContainsDelete(userEvent) ==
    userEvent \in {"delete", "delete.backward", "delete.forward", "delete.selection", "delete.cut"}

NothingQueued == [threw |-> FALSE, path |-> "none", queued |-> <<>>]

\* if (changes.length === 0) return; setTimeout(...): the timer holds the batch.
QueueBatch(path, r) ==
    [threw |-> r.threw, path |-> path,
     queued |-> IF r.threw \/ r.changes = <<>> THEN <<>> ELSE <<r.changes>>]

\* update(update) for an update of one transaction that led to document doc: the
\* timers it sets (each holds its batch of edits), or threw when the synthesizer threw.
update(transaction, doc) ==
    IF transaction.changes = <<>> THEN NothingQueued
    ELSE IF transaction.userEvent \in IgnoredUserEvents
    THEN [threw |-> FALSE, path |-> "ignored", queued |-> <<>>]
    ELSE IF ContainsDelete(transaction.userEvent)
    THEN QueueBatch("delete", handleDelete(transaction, doc))
    ELSE QueueBatch("enter", checkForEnter(transaction, doc))

VARIABLES
    doc,          \* the editor's document
    pending,      \* the batches of the timers set and not yet run, oldest first
    user,         \* the last user transaction and what update() made of it
    fired,        \* the last timer run: the batch, the document before it
    nUser,        \* user transactions so far
    nDispatched,  \* transactions the plugin dispatched so far
    codec         \* a numeral on its way through the codec

vars == <<doc, pending, user, fired, nUser, nDispatched, codec>>

NoUser ==
    [kind |-> "none", tr |-> Transaction(<<>>, <<>>, "none"), doc |-> <<>>,
     result |-> NothingQueued]

NotFired == [happened |-> FALSE, applied |-> FALSE, before |-> <<>>, changes |-> <<>>,
             result |-> NothingQueued]

NoCodec == [family |-> "none", stage |-> "idle", first |-> <<>>, text |-> <<>>,
            ordinal |-> 0, steps |-> 0]

InitEditor(docs) ==
    /\ doc \in docs
    /\ pending = <<>>
    /\ user = NoUser
    /\ fired = NotFired
    /\ nUser = 0
    /\ nDispatched = 0
    /\ codec = NoCodec

UserUpdated(kind, tr, newDoc, r) ==
    /\ doc' = newDoc
    /\ pending' = pending \o r.queued
    /\ user' = [kind |-> kind, tr |-> tr, doc |-> newDoc, result |-> r]
    /\ nUser' = nUser + 1
    /\ UNCHANGED <<fired, nDispatched, codec>>

UserApplied(kind, tr, newDoc) == UserUpdated(kind, tr, newDoc, update(tr, newDoc))

\* The user's transaction is applied and update() runs on the new state.
UserChange(kind, change, userEvent) ==
    UserApplied(kind, Transaction(doc, <<change>>, userEvent), ApplyChanges(doc, <<change>>, 1))

\* Enter with the cursor at offset pos.
UserEnter(pos) ==
    UserChange("enter", [from |-> pos, to |-> pos, insert |-> <<"\n">>], "input")

\* Deletion of the span from..to (Backspace, Delete, or a deleted selection).
UserDelete(from, to) ==
    UserChange("delete", [from |-> from, to |-> to, insert |-> <<>>], "delete.backward")

\* A transaction the filter ignores: an undo, a redo or a programmatic set that
\* puts a line break at pos.
UserIgnored(pos, userEvent) ==
    UserChange("ignored", [from |-> pos, to |-> pos, insert |-> <<"\n">>], userEvent)

TimerDone(changes, valid, newDoc, r) ==
    /\ doc' = newDoc
    /\ pending' = Tail(pending) \o r.queued
    /\ fired' = [happened |-> TRUE, applied |-> valid, before |-> doc,
                 changes |-> changes, result |-> r]
    /\ nDispatched' = IF valid THEN nDispatched + 1 ELSE nDispatched
    /\ UNCHANGED <<user, nUser, codec>>

TimerDispatched(changes, tr, newDoc) == TimerDone(changes, TRUE, newDoc, update(tr, newDoc))

\* The callback of a timer: it builds the change set against the current document
\* and dispatches it, and update() runs on the transaction it dispatched.  When a
\* range lies outside the document ChangeSet.of throws and nothing is dispatched.
TimerRun(changes) ==
    IF ValidChanges(changes, Len(doc))
    THEN TimerDispatched(changes, Transaction(doc, changes, "none"),
                         ApplyChanges(doc, changes, Len(changes)))
    ELSE TimerDone(changes, FALSE, doc, NothingQueued)

\* The oldest timer runs.
TimerFire == pending # <<>> /\ TimerRun(Head(pending))

(***************************************************************************)
(* The Enter path on one line                                              *)
(***************************************************************************)
MaxTextLen == 2

TextAlphabet == {" ", "f", ".", ")"}

\* The texts of at most n characters.
Texts(n) == UNION {[1..k -> TextAlphabet] : k \in 0..n}

EnterMarkers ==
    { <<>>, <<"1">>, <<"9">>, <<"A">>, <<"I">>, <<"Z">>, <<"a">>, <<"z">>,
      <<"I", "I">>, <<"I", "I", "I">>, <<"I", "V">>, <<"X", "I", "X">>,
      <<"zh1">>, <<"zh3">>, <<"zh10">>, <<"zhJia">>, <<"zh1", "zh2">> }

BracketPairs ==
    { <<"", "">>, <<"(", ")">>, <<"[", "]">>, <<"lb[", "lb]">>, <<"fw(", "fw)">>, <<"(", "]">> }

Decorated(pair, marker) ==
    (IF pair[1] = "" THEN <<>> ELSE <<pair[1]>>) \o marker
    \o (IF pair[2] = "" THEN <<>> ELSE <<pair[2]>>)

\* A line: a marker, bracketed or not, a separator or none, and the text after it.
EnterLines ==
    { Decorated(pair, marker) \o sep \o text :
        pair \in BracketPairs, marker \in EnterMarkers,
        sep \in {<<>>, <<".">>, <<"dun">>, <<"|">>}, text \in Texts(MaxTextLen) }

InitEnter == InitEditor(EnterLines)

EnterOnce == user.kind = "none" /\ \E pos \in 0..Len(doc) : UserEnter(pos)

NextEnter == EnterOnce \/ TimerFire

SpecEnter == InitEnter /\ [][NextEnter]_vars

(***************************************************************************)
(* What the claims speak of: a line's marker, separator and body, and the  *)
(* reference numerals of each family                                       *)
(***************************************************************************)
\* The batch update() queued for the last user transaction (empty when none).
UserBatch == IF user.result.queued = <<>> THEN <<>> ELSE user.result.queued[1]

\* The user pressed Enter at offset pos of the one-line document.
EnterPos == user.tr.changes[1].fromA
EnterAtEnd == user.kind = "enter" /\ EnterPos = Len(user.tr.startDoc)
CurrentLineText == Take(user.tr.startDoc, EnterPos)
NewLineText == Drop(user.tr.startDoc, EnterPos)

\* A line as the recognizer's grammar reads it: an optional opening bracket, the
\* marker token, an optional closing bracket, the separator, the body.
LinePrefix(line) ==
    LET o == IF Len(line) >= 1 /\ line[1] \in OpeningBrackets THEN 1 ELSE 0
        t == LeadingRun(line, o + 1, WordOrCJKSet)
        c == IF o + t + 1 <= Len(line) /\ line[o + t + 1] \in ClosingBrackets THEN 1 ELSE 0
        hasSep == o + t + c + 1 <= Len(line) /\ line[o + t + c + 1] \in Separators
    IN  [opener |-> SubSeq(line, 1, o),
         marker |-> SubSeq(line, o + 1, o + t),
         closer |-> SubSeq(line, o + t + 1, o + t + c),
         sep |-> IF hasSep THEN <<line[o + t + c + 1]>> ELSE <<>>,
         body |-> IF hasSep THEN Drop(line, o + t + c + 1) ELSE Drop(line, o + t + c)]

\* The batch is the one edit that deletes the current line and its line break.
DeletesCurrentLine ==
    UserBatch = <<[from |-> 0, to |-> Len(CurrentLineText) + 1, insert |-> <<>>]>>

\* The batch is the one edit that inserts text at the start of the new line.
InsertsAtNewLine(text) ==
    UserBatch = <<[from |-> Len(CurrentLineText) + 1, to |-> Len(CurrentLineText) + 1,
                   insert |-> text]>>

\* The reference numerals: ordinal n of a family written out from the family's table.
RomanOnes(one, five, ten) ==
    << <<>>, <<one>>, <<one, one>>, <<one, one, one>>, <<one, five>>, <<five>>,
       <<five, one>>, <<five, one, one>>, <<five, one, one, one>>, <<one, ten>> >>

RomanThousands == << <<>>, <<"M">>, <<"M", "M">>, <<"M", "M", "M">>, <<"M", "M", "M", "M">> >>

MaxRoman == 4999

RefRoman(n) ==
    RomanThousands[(n \div 1000) + 1]
    \o RomanOnes("C", "D", "M")[((n \div 100) % 10) + 1]
    \o RomanOnes("X", "L", "C")[((n \div 10) % 10) + 1]
    \o RomanOnes("I", "V", "X")[(n % 10) + 1]

RefRomanTable == [n \in 1..MaxRoman |-> RefRoman(n)]

\* The family the recognizer's priority order gives a well-formed marker, or "none".
RefFamily(marker) ==
    IF marker = <<>> THEN "none"
    ELSE IF \A i \in 1..Len(marker) : marker[i] \in DigitSet
         THEN (IF marker[1] = "0" THEN "none" ELSE "arabic")
    ELSE IF Len(marker) = 1 /\ marker[1] \in UpperSet THEN "uppercaseLetter"
    ELSE IF Len(marker) = 1 /\ marker[1] \in LowerSet THEN "lowercaseLetter"
    ELSE IF \A i \in 1..Len(marker) : marker[i] \in RomanLetters
         THEN (IF \E n \in 1..MaxRoman : RefRomanTable[n] = marker THEN "romanNumeral" ELSE "none")
    ELSE IF Len(marker) = 1 /\ marker[1] \in (CJKChars \ {"zh0", "zhJia"}) THEN "chineseNumeral"
    ELSE "none"

\* The ordinal of a well-formed marker of its family.
RefOrdinal(marker) ==
    LET family == RefFamily(marker)
    IN  CASE family = "arabic" -> DigitsValue(marker, Len(marker), 0)
          [] family = "uppercaseLetter" -> IndexOf(UpperChars, marker[1])
          [] family = "lowercaseLetter" -> IndexOf(LowerChars, marker[1])
          [] family = "romanNumeral" -> CHOOSE n \in 1..MaxRoman : RefRomanTable[n] = marker
          [] family = "chineseNumeral" -> IndexOf(chineseDigits, marker[1]) - 1

\* Whether ordinal n is inside the family's supported range.
InFamilyRange(n, family) ==
    CASE family = "arabic" -> n >= 1
      [] family \in {"uppercaseLetter", "lowercaseLetter"} -> n \in 1..26
      [] family = "romanNumeral" -> n \in 1..MaxRoman
      [] family = "chineseNumeral" -> n \in 1..10
      [] OTHER -> FALSE

RefEncode(n, family) ==
    CASE family = "arabic" -> DecimalString(n)
      [] family = "uppercaseLetter" -> <<UpperChars[n]>>
      [] family = "lowercaseLetter" -> <<LowerChars[n]>>
      [] family = "romanNumeral" -> RefRomanTable[n]
      [] family = "chineseNumeral" -> <<chineseDigits[n + 1]>>

\* A well-formed marker whose successor is inside its family's range.
HasSuccessor(marker) ==
    /\ RefFamily(marker) # "none"
    /\ InFamilyRange(RefOrdinal(marker) + 1, RefFamily(marker))

RefNext(marker) == RefEncode(RefOrdinal(marker) + 1, RefFamily(marker))

\* One space after '.', nothing after the full-width separator.
SpaceAfter(sep) == IF sep = <<"dun">> THEN <<>> ELSE <<" ">>

MatchingCloser(opener) ==
    CASE opener = <<"(">> -> <<")">>
      [] opener = <<"[">> -> <<"]">>
      [] opener = <<"lb[">> -> <<"lb]">>
      [] opener = <<"fw(">> -> <<"fw)">>
      [] OTHER -> <<>>

(***************************************************************************)
(* Claims on the Enter path (under SpecEnter)                              *)
(***************************************************************************)
\* C1: an Enter produces the edit that deletes the current line and its line break
\* if and only if the text after the line's marker and separator is blank and the
\* new line is blank; a line with non-blank text after its separator is never deleted.
C1_DeleteIffBodyBlank ==
    user.kind = "enter" =>
        LET q == LinePrefix(CurrentLineText)
        IN  DeletesCurrentLine <=>
                /\ ~IsBlank(CurrentLineText)
                /\ q.sep # <<>>
                /\ IsBlank(q.body)
                /\ IsBlank(NewLineText)

\* The case C2 is about: Enter at the end of an unbracketed <marker><p><text> line
\* of a letter, roman or Chinese family, text not blank, successor in range.
C2_Case ==
    /\ EnterAtEnd
    /\ LET q == LinePrefix(CurrentLineText)
       IN  /\ q.opener = <<>> /\ q.closer = <<>> /\ q.sep # <<>>
           /\ ~IsBlank(q.body)
           /\ HasSuccessor(q.marker)
           /\ RefFamily(q.marker) # "arabic"

\* C2: in that case the batch is exactly one insertion, at the start of the new
\* line, of the next marker of the family, the same separator, and a space after '.'.
C2_InsertsNextMarker ==
    C2_Case =>
        LET q == LinePrefix(CurrentLineText)
        IN  InsertsAtNewLine(RefNext(q.marker) \o q.sep \o SpaceAfter(q.sep))

\* Enter at the end of a line whose marker is wrapped in an opening bracket and its
\* closing bracket, with a successor in range and non-blank text after it.
BracketedCase ==
    /\ EnterAtEnd
    /\ LET q == LinePrefix(CurrentLineText)
       IN  /\ q.opener # <<>> /\ q.closer = MatchingCloser(q.opener)
           /\ HasSuccessor(q.marker)
           /\ ~IsBlank(q.body)

\* C3 as stated: when the text follows the closing bracket directly, as in "(a) foo",
\* the batch is one insertion of the re-wrapped next marker and a space: "(b) ".
C3_BracketedDirectText ==
    (BracketedCase /\ LinePrefix(CurrentLineText).sep = <<>>) =>
        LET q == LinePrefix(CurrentLineText)
        IN  InsertsAtNewLine(q.opener \o RefNext(q.marker) \o q.closer \o <<" ">>)

\* C3 amended: when a separator follows the closing bracket, as in "(a). foo", the
\* batch is one insertion of the re-wrapped next marker, the same separator, and a
\* space after '.': "(b). ".
C3_BracketedWithSeparator ==
    (BracketedCase /\ LinePrefix(CurrentLineText).sep # <<>>) =>
        LET q == LinePrefix(CurrentLineText)
        IN  InsertsAtNewLine(q.opener \o RefNext(q.marker) \o q.closer \o q.sep
                             \o SpaceAfter(q.sep))

C3_Witness ==
    /\ EnterAtEnd
    /\ CurrentLineText = <<"(", "a", ")", ".", " ", "f">>
    /\ InsertsAtNewLine(<<"(", "b", ")", ".", " ">>)

\* C9: Enter at the end of a line whose Chinese marker decodes to zero (it is none
\* of one..ten) or is ten (its successor encodes to the empty string) produces no
\* insertion.
C9_NoInsertionOutOfRange ==
    LET q == LinePrefix(CurrentLineText)
    IN  ( /\ EnterAtEnd
          /\ q.marker # <<>>
          /\ \A i \in 1..Len(q.marker) : q.marker[i] \in CJKChars
          /\ q.sep # <<>>
          /\ (chineseToArabic(q.marker) = 0 \/ q.marker = <<"zh10">>) )
        => \A i \in 1..Len(UserBatch) : UserBatch[i].insert = <<>>

(***************************************************************************)
(* The delete/merge path on a document of a few lines                      *)
(***************************************************************************)
MaxLines == 3

DeleteLines ==
    { <<>>,
      <<"x">>,
      <<"1", ".", " ", "f">>,
      <<"2", ".", " ">>,
      <<"3", ".", " ", "t">>,
      <<"(", "2", ")", ".", "f">>,
      <<"b", ".", " ", "f">>,
      <<"I", "I", ".", "f">>,
      <<"zh3", "dun", "f">>,
      <<"2", ".", "f", "(", "b", ")", ".", "z">> }

RECURSIVE JoinLines(_)
JoinLines(lines) ==
    IF Len(lines) = 1 THEN lines[1]
    ELSE lines[1] \o <<"\n">> \o JoinLines(Tail(lines))

DeleteDocs ==
    { JoinLines(lines) : lines \in UNION {[1..n -> DeleteLines] : n \in 1..MaxLines} }

InitDelete == InitEditor(DeleteDocs)

DeleteOnce ==
    /\ user.kind = "none"
    /\ \E from \in 0..Len(doc) : \E to \in (from + 1)..Len(doc) : UserDelete(from, to)

NextDelete == DeleteOnce \/ TimerFire

SpecDelete == InitDelete /\ [][NextDelete]_vars

(***************************************************************************)
(* Claims on the delete/merge path (under SpecDelete)                      *)
(***************************************************************************)
\* The span the user deleted, and the lines before and after the deletion.
DeleteFrom == user.tr.changes[1].fromA
DeleteTo == user.tr.changes[1].toA
BeforeLines == DocLines(user.tr.startDoc)
AfterLines == DocLines(user.doc)

\* The lines once the batch, if any, has been applied.
FinalLines == DocLines(doc)

\* The deletion is over: handleDelete returned and no timer is left to run.
DeleteSettled == user.kind = "delete" /\ ~user.result.threw /\ pending = <<>>

LineNumberAt(lines, pos) ==
    CHOOSE n \in 1..Len(lines) : lines[n].from <= pos /\ pos <= lines[n].to

\* A list line of some family, and an unbracketed line of the Arabic family.
ListItem(text) ==
    LinePrefix(text).sep # <<>> /\ RefFamily(LinePrefix(text).marker) # "none"

ArabicItem(text) ==
    /\ ListItem(text)
    /\ LinePrefix(text).opener = <<>> /\ LinePrefix(text).closer = <<>>
    /\ RefFamily(LinePrefix(text).marker) = "arabic"

ItemOrdinal(text) == RefOrdinal(LinePrefix(text).marker)

\* The case C4 is about: the deleted span starts on an Arabic list line, after its
\* marker and separator, and ends on a later Arabic list line; no line of the
\* document is a list line of another family.
C4_Case ==
    /\ DeleteSettled
    /\ \A n \in 1..Len(BeforeLines) :
           ListItem(BeforeLines[n].text) => ArabicItem(BeforeLines[n].text)
    /\ \A n \in 1..Len(AfterLines) :
           ListItem(AfterLines[n].text) => ArabicItem(AfterLines[n].text)
    /\ LET a == LineNumberAt(BeforeLines, DeleteFrom)
           b == LineNumberAt(BeforeLines, DeleteTo)
       IN  /\ a < b
           /\ \A n \in a..b : ArabicItem(BeforeLines[n].text)
           /\ DeleteFrom > BeforeLines[a].from + Len(LinePrefix(BeforeLines[a].text).marker)

\* C4: after a deletion that crosses a line boundary inside an Arabic list and the
\* batch applied, the item at the deletion point keeps its ordinal, every following
\* consecutive list line carries the ordinal of the line above plus one, and the
\* first non-list line and every line after it are unchanged.
C4_AnchorKeepsOrdinal ==
    C4_Case =>
        LET a == LineNumberAt(BeforeLines, DeleteFrom)
        IN  /\ Len(FinalLines) = Len(AfterLines)
            /\ ArabicItem(FinalLines[a].text)
            /\ ItemOrdinal(FinalLines[a].text) = ItemOrdinal(BeforeLines[a].text)
            /\ \A k \in (a + 1)..Len(AfterLines) :
                   IF \A j \in (a + 1)..k : ArabicItem(AfterLines[j].text)
                   THEN /\ ArabicItem(FinalLines[k].text)
                        /\ ItemOrdinal(FinalLines[k].text)
                               = ItemOrdinal(FinalLines[k - 1].text) + 1
                   ELSE FinalLines[k].text = AfterLines[k].text

\* The text an edit of the batch replaces.
Replaced(edit) == sliceString(user.doc, edit.from, edit.to)

\* C6: handleDelete produces an edit for a line only if the line's ordinal differs
\* from the running ordinal: no edit of the batch writes the text that is already
\* there, and a correctly numbered run gives an empty batch.
C6_NoEditWithoutDifference ==
    user.kind = "delete" =>
        \A k \in 1..Len(UserBatch) : UserBatch[k].insert # Replaced(UserBatch[k])

\* C7: every edit of a renumbering batch changes only the marker of its line: the
\* brackets, the separator and the text after the separator stay, and the new
\* marker is of the line's own family.
C7_OnlyMarkerChanges ==
    user.kind = "delete" =>
        \A k \in 1..Len(UserBatch) :
            /\ LinePrefix(UserBatch[k].insert).opener = LinePrefix(Replaced(UserBatch[k])).opener
            /\ LinePrefix(UserBatch[k].insert).closer = LinePrefix(Replaced(UserBatch[k])).closer
            /\ LinePrefix(UserBatch[k].insert).sep = LinePrefix(Replaced(UserBatch[k])).sep
            /\ LinePrefix(UserBatch[k].insert).body = LinePrefix(Replaced(UserBatch[k])).body
            /\ RefFamily(LinePrefix(UserBatch[k].insert).marker)
                   = RefFamily(LinePrefix(Replaced(UserBatch[k])).marker)

\* C8: handleDelete returns a batch for every user deletion on every document: none
\* of its line lookups is outside the document.
C8_DeleteNeverThrows == user.kind = "delete" => ~user.result.threw

(***************************************************************************)
(* The numeral codec on its own: a marker is decoded and encoded again     *)
(***************************************************************************)
MaxArabic == 120
MaxRoundTrips == 2

\* The markers of each family: the display strings of the ordinals in its range.
RomanMarkers ==
    {m \in {RefRomanTable[n] : n \in 1..MaxRoman} : m # <<>> /\ MatchesRomanGrammar(m)}

MarkersOf(family) ==
    CASE family = "arabic" -> {DecimalString(n) : n \in 1..MaxArabic}
      [] family = "uppercaseLetter" -> {<<c>> : c \in UpperSet}
      [] family = "lowercaseLetter" -> {<<c>> : c \in LowerSet}
      [] family = "romanNumeral" -> RomanMarkers
      [] family = "chineseNumeral" -> {<<chineseDigits[n + 1]>> : n \in 1..10}

\* The numbers the decoder gives for the ordinals of each family's range.
NumbersOf(family) ==
    CASE family = "arabic" -> 1..MaxArabic
      [] family = "uppercaseLetter" -> 65..90
      [] family = "lowercaseLetter" -> 97..122
      [] family = "romanNumeral" -> 1..MaxRoman
      [] family = "chineseNumeral" -> 1..10

Families == {"arabic", "uppercaseLetter", "lowercaseLetter", "romanNumeral", "chineseNumeral"}

InitCodec ==
    /\ doc = <<>>
    /\ pending = <<>>
    /\ user = NoUser
    /\ fired = NotFired
    /\ nUser = 0
    /\ nDispatched = 0
    /\ \E family \in Families :
           \/ \E marker \in MarkersOf(family) :
                  codec = [family |-> family, stage |-> "marker", first |-> marker,
                           text |-> marker, ordinal |-> 0, steps |-> 0]
           \/ \E number \in NumbersOf(family) :
                  codec = [family |-> family, stage |-> "number", first |-> <<>>,
                           text |-> <<>>, ordinal |-> number, steps |-> 0]

\* The marker is decoded as extractNumber decodes the head of a line.
Decode ==
    /\ codec.stage = "marker"
    /\ codec.steps < MaxRoundTrips
    /\ codec' = [codec EXCEPT !.stage = "number",
                              !.ordinal = extractNumber(codec.text, codec.family)]
    /\ UNCHANGED <<doc, pending, user, fired, nUser, nDispatched>>

EncodeTo(text) ==
    /\ codec' = [codec EXCEPT !.stage = "marker", !.text = text,
                              !.first = IF codec.first = <<>> THEN text ELSE codec.first,
                              !.steps = codec.steps + 1]
    /\ UNCHANGED <<doc, pending, user, fired, nUser, nDispatched>>

\* The number is encoded as getNextNumber encodes the number it has incremented.
Encode == codec.stage = "number" /\ EncodeTo(encodeNumber(codec.ordinal, codec.family))

NextCodec == Decode \/ Encode

SpecCodec == InitCodec /\ [][NextCodec]_vars

\* C5: a well-formed marker of a family, decoded and encoded again, is the marker it
\* was; and the encoding of an ordinal in range, decoded and encoded again, is the
\* same encoding.
C5_RoundTrip ==
    (codec.stage = "marker" /\ codec.steps >= 1) => codec.text = codec.first

\* The numeral MCMXCIV has gone through the decoder and the encoder.
C5_Witness ==
    /\ codec.family = "romanNumeral"
    /\ codec.stage = "marker"
    /\ codec.steps = MaxRoundTrips
    /\ codec.ordinal = 1994
    /\ codec.text = <<"M", "C", "M", "X", "C", "I", "V">>

(***************************************************************************)
(* The adapter with its timers: user changes and deferred dispatches       *)
(***************************************************************************)
MaxUserChanges == 2
MaxSpan == 2

AdapterDocs ==
    { <<"(", "a", ")", ".", "f">>,
      <<"b", ".", " ">>,
      <<"1", ".", "f", "\n", "3", ".", "t">> }

InitAdapter == InitEditor(AdapterDocs)

UserActs ==
    /\ nUser < MaxUserChanges
    /\ \/ \E pos \in 0..Len(doc) : UserEnter(pos)
       \/ \E from \in 0..Len(doc) :
              \E to \in (from + 1)..Len(doc) : to - from <= MaxSpan /\ UserDelete(from, to)
       \/ \E pos \in 0..Len(doc) : \E userEvent \in {"undo", "set"} : UserIgnored(pos, userEvent)

NextAdapter == UserActs \/ TimerFire

\* A timer set with setTimeout runs: the oldest pending callback is eventually called.
SpecAdapter == InitAdapter /\ [][NextAdapter]_vars /\ WF_vars(TimerFire)

\* C10: update() on a transaction the plugin dispatched queues no batch, so the
\* batches dispatched and pending never outnumber the user's transactions, and
\* whenever an edit is pending the system reaches a state where none is.
C10_NoFeedbackLoop ==
    /\ [](fired.result.queued = <<>>)
    /\ [](nDispatched + Len(pending) <= nUser)
    /\ (pending # <<>>) ~> (pending = <<>>)

\* A renumbering batch (an edit that replaces a line) has been dispatched, update()
\* has run on the transaction through the Enter path, and nothing is pending.
C10_Witness ==
    /\ fired.happened /\ fired.applied
    /\ fired.changes[1].from < fired.changes[1].to
    /\ fired.changes[1].insert # <<>>
    /\ fired.result.path = "enter"
    /\ nDispatched >= 1
    /\ pending = <<>>

=============================================================================
